---------------------------- MODULE Spec2Model ----------------------------
(* A model of TunesParser's queue manager (enqueue.py): one command-line   *)
(* invocation after another over the persisted shortcut and group files.   *)
(* Each invocation parses its arguments, looks up a shortcut, resolves a   *)
(* track list through one of five branches, issues the queue-append calls  *)
(* one by one and finally runs the post-actions; a transport or           *)
(* housekeeping command ends the invocation in its own handler.            *)
EXTENDS Integers, Sequences, FiniteSets, TLC

VARIABLES
    shortFile,   \* resources/shortcuts.json: [state, data]
    groupFile,   \* resources/groups.json: [state, data]
    runs,        \* invocations started so far
    typed,       \* what the user entered at this invocation's prompts, in order
    pc,          \* position of the current invocation
    args,        \* the parsed command line of the current invocation
    passed,      \* title, artist and uri handed to enqueue()
    branch,      \* resolution branch enqueue() took
    tracks,      \* enqueue()'s resolved track list
    times,       \* enqueue()'s repeat count (after the remote-user collapse)
    qpos,        \* queue-append calls issued so far by the queuing loop
    calls,       \* requests sent to the services (and the cancel-window sleep), in order
    out,         \* lines printed, in order
    outcome      \* how the invocation ended

vars == <<shortFile, groupFile, runs, typed, pc, args, passed, branch, tracks, times,
          qpos, calls, out, outcome>>

-----------------------------------------------------------------------------
(* Bounds of the exploration.                                              *)

MaxRuns == 2
MaxTimes == 2
MaxChart == 2
MaxLast == 2
MaxCount == 3
MaxRan == 3
MaxItems == 2
MaxAlbum == 51

-----------------------------------------------------------------------------
(* Values.                                                                 *)

None == "None"

PART_SEPARATOR == "<--|-->"

\* max(50, times): the window asked of get_top_tracks
DefaultWindow == 50

Min(a, b) == IF a < b THEN a ELSE b
Max(a, b) == IF a > b THEN a ELSE b

\* Python truthiness: None and "" are falsy strings, None and 0 falsy counts.
\* An absent count (argparse's None) is written NoCount.
NoCount == 0 - 1
Truthy(s) == s \notin {None, ""}
TruthyCount(n) == n \notin {NoCount, 0}

\* str.lower() on the strings the model types.
Lower(s) ==
    CASE s = "Blank Space" -> "blank space"
      [] s = "BLANK SPACE" -> "blank space"
      [] s = "Taylor Swift" -> "taylor swift"
      [] s = "TAYLOR SWIFT" -> "taylor swift"
      [] s = "Y" -> "y"
      [] OTHER -> s

\* str.upper() and str.strip() on the strings the model types
Upper(s) ==
    CASE s = "save" -> "SAVE"
      [] s = "Save" -> "SAVE"
      [] OTHER -> s

Strip(s) ==
    CASE s = " Save " -> "Save"
      [] s = " Y " -> "Y"
      [] OTHER -> s

\* `x or ''`
OrEmpty(x) == IF x = None THEN "" ELSE x

MemKey(title, artist) ==
    Lower(OrEmpty(title)) \o PART_SEPARATOR \o Lower(OrEmpty(artist))

\* dict helpers
Get(f, k, default) == IF k \in DOMAIN f THEN f[k] ELSE default
Put(f, k, v) == [x \in (DOMAIN f) \cup {k} |-> IF x = k THEN v ELSE f[x]]
Del(f, k) == [x \in (DOMAIN f) \ {k} |-> f[x]]
EmptyDict == [x \in {} |-> None]

Modes == {"tracks", "albums"}

Track(name, artist, uri, album, album_uri) ==
    [name |-> name, artist |-> artist, uri |-> uri, album |-> album,
     album_uri |-> album_uri]

\* The streaming service's catalogue, as far as the model looks at it.
AlbumUri == "spotify:album:1"
TrackA == Track("A", "Taylor Swift", "spotify:track:A", "LP", AlbumUri)
TrackB == Track("B", "Taylor Swift", "spotify:track:B", "LP", AlbumUri)
TrackC == Track("C", "Taylor Swift", "spotify:track:C", "LP", AlbumUri)
AlbumItems == <<TrackA, TrackB>>
\* play history, most recent first
History == <<TrackC, TrackB, TrackA>>


\* The watched user's yearly chart on the scrobble service: n entries,
\* most played first.
TopName(i) == "top" \o ToString(i)
TopUri(i) == "spotify:track:top" \o ToString(i)
Chart(n) == [i \in 1..n |-> [name |-> TopName(i), artist |-> "bob's", plays |-> n + 1 - i]]

\* HTTP statuses the queue endpoint answers with.
Statuses == {204, 500}

-----------------------------------------------------------------------------
(* The persisted files.  A file is absent, holds text json.load rejects,   *)
(* or holds a JSON object (data).                                          *)

Absent == [state |-> "absent", data |-> EmptyDict]
Malformed == [state |-> "malformed", data |-> EmptyDict]
Json(d) == [state |-> "json", data |-> d]

EmptyMemory == [m \in Modes |-> EmptyDict]

\* enqueue.py 285-293 (and 564-568 once the file is known to exist)
LoadMemory(file) == IF file.state = "json" THEN file.data ELSE EmptyMemory

\* enqueue.py 143-147, 182-186
LoadGroups(file) == IF file.state = "json" THEN file.data ELSE EmptyDict

\* enqueue.py 302-307: the record remember_track stores
ShortcutRecord(track, mode) ==
    [name |-> track.name, artist |-> track.artist, album |-> track.album,
     relevant_uri |-> IF mode = "tracks" THEN track.uri ELSE track.album_uri]

\* remember_track: tracks is the caller's resolved list (tracks[0] is stored),
\* <<>> standing for the None that forget passes.
RememberTrack(file, title, artist, trks, mode, delete) ==
    LET memory == LoadMemory(file)
        mem_key == MemKey(title, artist)
    IN  IF delete
        THEN IF mode \notin DOMAIN memory
             THEN [raised |-> TRUE, file |-> file, out |-> <<>>]
             ELSE IF mem_key \in DOMAIN memory[mode]
                  THEN [raised |-> FALSE,
                        file |-> Json([memory EXCEPT ![mode] = Del(memory[mode], mem_key)]),
                        out |-> <<>>]
                  ELSE [raised |-> FALSE, file |-> Json(memory),
                        out |-> << <<"shortcut_not_found", OrEmpty(title)>> >>]
        ELSE IF trks # <<>>
             THEN IF mode \notin DOMAIN memory
                  THEN [raised |-> TRUE, file |-> file, out |-> <<>>]
                  ELSE [raised |-> FALSE,
                        file |-> Json([memory EXCEPT ![mode] =
                                     Put(memory[mode], mem_key, ShortcutRecord(trks[1], mode))]),
                        out |-> <<>>]
             ELSE [raised |-> FALSE, file |-> Json(memory),
                   out |-> << <<"shortcut_needs_track", OrEmpty(title)>> >>]

-----------------------------------------------------------------------------
(* The command lines explored.  user is "" when -@ is not given (argparse  *)
(* default); remember and forget are <<>> when not given; next is NoCount   *)
(* when -n is not given; save is TRUE when --save is given (args.save is   *)
(* then a list that is not empty, enqueue.py 362); share, playlist and     *)
(* delete_group are None when not given.                                   *)

BaseArgs ==
    [title |-> None, artist |-> None, uri |-> None, album |-> FALSE,
     group |-> None, user |-> "", times |-> 1, previous |-> NoCount,
     amnesia |-> FALSE, ignore |-> FALSE, remember |-> <<>>, forget |-> <<>>,
     source |-> None, offset |-> <<>>, make_group |-> FALSE,
     open |-> FALSE, save |-> FALSE, like |-> FALSE, share |-> None,
     pause |-> FALSE, playpause |-> FALSE, queue |-> FALSE, next |-> NoCount,
     playlist |-> None, which |-> FALSE, delete_group |-> None,
     list_rules |-> FALSE]

\* enqueue.py 586: any((args.ignore, args.open, args.save, args.like, args.share))
Ignore(a) == a.ignore \/ a.open \/ a.save \/ a.like \/ Truthy(a.share)

RememberValues == {<<>>, <<"Blank Space", "TAYLOR SWIFT">>}

\* every combination of the five resolution inputs
PrecedenceArgs ==
    {[BaseArgs EXCEPT !.group = g, !.user = u, !.title = t, !.uri = i,
                      !.previous = p] :
        g \in {None, "solo"}, u \in {"", "bob"}, t \in {None, "Blank Space"},
        i \in {None, "spotify:track:C"}, p \in {NoCount, 0, 1}}

GroupArgs ==
    {[BaseArgs EXCEPT !.group = g, !.times = n] :
        g \in {"road-trip", "missing"}, n \in 0..MaxTimes}
    \cup {[BaseArgs EXCEPT !.group = "empty"],
          [BaseArgs EXCEPT !.group = "road-trip", !.ignore = TRUE],
          [BaseArgs EXCEPT !.group = "road-trip", !.album = TRUE]}

UserArgs ==
    {[BaseArgs EXCEPT !.user = "bob", !.times = n] : n \in 0..MaxTimes}
    \cup {[BaseArgs EXCEPT !.user = "bob", !.album = al, !.remember = r] :
            al \in BOOLEAN, r \in RememberValues}
    \cup {[BaseArgs EXCEPT !.user = "bob", !.ignore = TRUE]}

TitleArgs ==
    {[BaseArgs EXCEPT !.title = t, !.artist = a, !.uri = i, !.album = al,
                      !.amnesia = am, !.remember = r] :
        t \in {"blank space", "Blank Space"}, a \in {None, "Taylor Swift"},
        i \in {None, "spotify:track:C"}, al \in BOOLEAN, am \in BOOLEAN,
        r \in RememberValues}
    \cup {[BaseArgs EXCEPT !.title = "Blank Space", !.ignore = TRUE],
          [BaseArgs EXCEPT !.title = "Blank Space", !.ignore = TRUE,
                           !.remember = <<"Blank Space">>],
          [BaseArgs EXCEPT !.title = "Blank Space", !.album = TRUE, !.previous = 1],
          [BaseArgs EXCEPT !.uri = AlbumUri, !.album = TRUE, !.previous = 1]}

UriArgs ==
    {[BaseArgs EXCEPT !.uri = i, !.album = al, !.remember = r] :
        i \in {"spotify:track:C", AlbumUri}, al \in BOOLEAN, r \in RememberValues}

LastArgs ==
    {[BaseArgs EXCEPT !.previous = p] : p \in 0..MaxLast}
    \cup {[BaseArgs EXCEPT !.previous = 2, !.times = n] : n \in 1..MaxTimes}
    \cup {[BaseArgs EXCEPT !.previous = 1, !.album = TRUE],
          [BaseArgs EXCEPT !.previous = 1, !.ignore = TRUE],
          [BaseArgs EXCEPT !.previous = 1, !.remember = <<"Blank Space">>]}

CurrentArgs ==
    {[BaseArgs EXCEPT !.times = n] : n \in 1..MaxTimes}
    \cup {[BaseArgs EXCEPT !.album = al, !.remember = r] :
            al \in BOOLEAN, r \in RememberValues}
    \cup {[BaseArgs EXCEPT !.ignore = TRUE]}

QueueArgs ==
    PrecedenceArgs \cup GroupArgs \cup UserArgs \cup TitleArgs \cup UriArgs
        \cup LastArgs \cup CurrentArgs

ForgetArgs ==
    {[BaseArgs EXCEPT !.forget = f, !.album = al] :
        f \in {<<"BLANK SPACE">>, <<"blank space", "Taylor Swift">>}, al \in BOOLEAN}

\* the transport and housekeeping commands, alone and next to a title
CommandArgs ==
    LET alone ==
            {[BaseArgs EXCEPT !.pause = TRUE], [BaseArgs EXCEPT !.playpause = TRUE],
             [BaseArgs EXCEPT !.queue = TRUE], [BaseArgs EXCEPT !.playlist = "PRIMARY"],
             [BaseArgs EXCEPT !.which = TRUE], [BaseArgs EXCEPT !.list_rules = TRUE]}
            \cup {[BaseArgs EXCEPT !.next = n] : n \in 0..MaxTimes}
            \cup {[BaseArgs EXCEPT !.delete_group = g] : g \in {"solo", "missing"}}
    IN  alone \cup {[a EXCEPT !.title = "Blank Space"] : a \in alone}

\* a request next to each of the flags of enqueue.py 586
FlagArgs ==
    LET requests ==
            {[BaseArgs EXCEPT !.uri = "spotify:track:C"], [BaseArgs EXCEPT !.uri = AlbumUri],
             [BaseArgs EXCEPT !.title = "Blank Space"],
             [BaseArgs EXCEPT !.title = "Blank Space", !.album = TRUE],
             [BaseArgs EXCEPT !.group = "road-trip"], [BaseArgs EXCEPT !.user = "bob"],
             [BaseArgs EXCEPT !.previous = 1], BaseArgs}
    IN  UNION {{[a EXCEPT !.ignore = TRUE], [a EXCEPT !.open = TRUE],
                [a EXCEPT !.save = TRUE], [a EXCEPT !.like = TRUE],
                [a EXCEPT !.share = "SPOTIFY"],
                [a EXCEPT !.save = TRUE, !.like = TRUE]} : a \in requests}

\* enqueue.py 367-563 (no --source): the handler a command line ends in
Handler(a) ==
    IF a.pause \/ a.playpause THEN "playpause"
    ELSE IF a.queue THEN "queue"
    ELSE IF TruthyCount(a.next) /\ a.next > 0 THEN "next"
    ELSE IF Truthy(a.playlist) THEN "playlist"
    ELSE IF a.forget # <<>> THEN "forget"
    ELSE IF a.which THEN "which"
    ELSE IF a.make_group THEN "make_group"
    ELSE IF Truthy(a.delete_group) THEN "delete_group"
    ELSE IF a.list_rules THEN "list_rules"
    ELSE "enqueue"

\* enqueue.py 382
Mode(a) == IF ~a.album /\ ~Truthy(a.source) THEN "tracks" ELSE "albums"

\* args.remember[1] if len(args.remember) > 1 else None
Second(list) == IF Len(list) > 1 THEN list[2] ELSE None

-----------------------------------------------------------------------------
(* Pure parts of queue_track and enqueue.                                  *)

NoRecord == [name |-> None, artist |-> None, album |-> None, relevant_uri |-> None]

\* the lookup falling back on the other mode's partition
LookupEitherMode(file, a) ==
    LET memory == LoadMemory(file)
        memory_key == IF ~Truthy(a.title) THEN ""
                      ELSE Lower(a.title) \o PART_SEPARATOR \o Lower(OrEmpty(a.artist))
        own == Get(memory, Mode(a), EmptyDict)
        other == Get(memory, CHOOSE m \in Modes : m # Mode(a), EmptyDict)
        part == IF memory_key \in DOMAIN own THEN own ELSE other
        hit == memory_key \in DOMAIN part
        mobject == IF hit THEN part[memory_key] ELSE NoRecord
    IN  [artist |-> IF hit /\ ~a.amnesia THEN mobject.artist ELSE a.artist,
         title |-> IF hit /\ ~a.amnesia THEN mobject.name ELSE a.title,
         uri |-> IF Truthy(a.uri) THEN a.uri ELSE mobject.relevant_uri]

\* enqueue.py 570-577: the shortcut lookup and what it hands to enqueue().
\* Records written by remember_track carry no 'uri' key, so
\* mobject.get('uri') is None and the `or` chain ends on relevant_uri.
Lookup(file, a) ==
    LET memory == LoadMemory(file)
        memory_key == IF ~Truthy(a.title) THEN ""
                      ELSE Lower(a.title) \o PART_SEPARATOR \o Lower(OrEmpty(a.artist))
        part == Get(memory, Mode(a), EmptyDict)
        hit == memory_key \in DOMAIN part
        mobject == IF hit THEN part[memory_key] ELSE NoRecord
    IN  [artist |-> IF hit /\ ~a.amnesia THEN mobject.artist ELSE a.artist,
         title |-> IF hit /\ ~a.amnesia THEN mobject.name ELSE a.title,
         uri |-> IF Truthy(a.uri) THEN a.uri ELSE mobject.relevant_uri]

\* the chain with title-or-uri tested before user
BranchTitleFirst(group, user, title, uri, last) ==
    IF Truthy(group) THEN "group"
    ELSE IF Truthy(title) \/ Truthy(uri) THEN "title_uri"
    ELSE IF Truthy(user) THEN "user"
    ELSE IF TruthyCount(last) THEN "last"
    ELSE "current"

\* enqueue.py 181, 190, 196, 222, 236: the if/elif chain
Branch(group, user, title, uri, last) ==
    IF Truthy(group) THEN "group"
    ELSE IF Truthy(user) THEN "user"
    ELSE IF Truthy(title) \/ Truthy(uri) THEN "title_uri"
    ELSE IF TruthyCount(last) THEN "last"
    ELSE "current"

\* lastly.py 76-85: the chart cut to limit entries, widened over a tie of plays
RECURSIVE TieRun(_, _, _)
TieRun(unlimited, from, last_plays) ==
    IF from > Len(unlimited) \/ unlimited[from].plays # last_plays THEN 0
    ELSE 1 + TieRun(unlimited, from + 1, last_plays)

GetTopTracks(unlimited, limit) ==
    LET last == IF Len(unlimited) > limit
                THEN limit + TieRun(unlimited, limit + 1, unlimited[limit].plays)
                ELSE limit
    IN  SubSeq(unlimited, 1, Min(last, Len(unlimited)))

\* random.sample(population of n, k): every ordered choice of k distinct positions
Samples(n, k) == {s \in [1..k -> 1..n] : \A i, j \in 1..k : i # j => s[i] # s[j]}

\* utilities.py 162-170 as used at enqueue.py 192: the uri of the top hit, or None
SearchUri(found, i) == IF found THEN TopUri(i) ELSE None

\* enqueue.py 192: the dicts built from the sampled chart entries
UserTracks(track_data, sample, found) ==
    [j \in 1..Len(sample) |->
        Track(track_data[sample[j]].name, track_data[sample[j]].artist,
              SearchUri(found[j], sample[j]), None, None)]

\* the repeat count left as given
UserTimesKept(n) == n

\* enqueue.py 194-195
UserTimes(n) == IF n > 0 THEN 1 ELSE n

TopTrack(i) == Track(TopName(i), "bob's", TopUri(i), "LP", AlbumUri)
Catalogue == {TrackA, TrackB, TrackC} \cup {TopTrack(i) : i \in 1..MaxChart}

\* The albums behind --source: item i of the saved-albums library and of
\* the backlog playlist (0-based, as the service counts them).  Items 1 and
\* 2 format to the same label; backlog item 0 is a local file without a uri.
Sources == {"LIBRARY", "BACKLOG"}
SourceLabel(i) == "Album " \o ToString(IF i = 2 THEN 1 ELSE i) \o " by Various"
SourceUri(source, i) ==
    IF source = "BACKLOG" THEN (IF i = 0 THEN None ELSE "spotify:album:b" \o ToString(i))
    ELSE "spotify:album:l" \o ToString(i)
SourceAlbumUris ==
    {SourceUri(src, i) : src \in Sources, i \in 0..MaxCount} \ {None}

\* Albums of every length up to MaxAlbum tracks.
SizedAlbumUri(n) == "spotify:album:of" \o ToString(n)
SizedAlbumUris == {SizedAlbumUri(n) : n \in 0..MaxAlbum}
SizedAlbumTrack(uri, i) ==
    Track("Track " \o ToString(i), "Various", uri \o ":track:" \o ToString(i),
          "Long player", uri)

\* what the service holds for an album: its tracks, in album order
AlbumContent(uri) ==
    IF uri = AlbumUri THEN AlbumItems
    ELSE IF uri \in SizedAlbumUris
    THEN [i \in 1..(CHOOSE n \in 0..MaxAlbum : SizedAlbumUri(n) = uri) |->
            SizedAlbumTrack(uri, i)]
    ELSE << Track("Side one", "Various", "spotify:track:of:" \o uri, "Album", uri) >>

\* enqueue.py 66: albums/{idx}/tracks?limit=50
PageLimit == 50

\* enqueue.py 60-85 for a uri the service knows
IsAlbumUri(uri) ==
    uri = AlbumUri \/ uri \in SourceAlbumUris \/ uri \in SizedAlbumUris
AlbumTracks(uri) ==
    SubSeq(AlbumContent(uri), 1, Min(Len(AlbumContent(uri)), PageLimit))

\* a uri resolved and handed to a post-action, without queuing
UriOnlyArgs ==
    {[BaseArgs EXCEPT !.uri = SizedAlbumUri(n), !.ignore = TRUE] : n \in 0..MaxAlbum}
    \cup {[BaseArgs EXCEPT !.uri = u, !.ignore = TRUE] :
            u \in {TrackA.uri, TrackC.uri, AlbumUri}}
GetTrack(uri) ==
    IF IsAlbumUri(uri) THEN AlbumTracks(uri)
    ELSE << CHOOSE t \in Catalogue : t.uri = uri >>
GetTrackCalls(uri) ==
    IF IsAlbumUri(uri) THEN << <<"get_album", uri, 0>>, <<"album_tracks", uri, 0>> >>
    ELSE << <<"get_track", uri, 0>> >>

\* enqueue.py 204-221: the track list built from the top search hit
SearchTracks(mode) ==
    IF mode = "albums" THEN AlbumItems
    ELSE << Track(TrackA.name, TrackA.artist, TrackA.uri, TrackA.album, None) >>

\* the service's order kept
ReverseSkipped(seq) == seq

\* enqueue.py 224: [::-1]
Reverse(seq) == [i \in 1..Len(seq) |-> seq[Len(seq) + 1 - i]]

\* enqueue.py 229-235
LastTracks(responses) ==
    [i \in 1..Len(responses) |->
        Track(responses[i].name, responses[i].artist, responses[i].uri,
              responses[i].album, responses[i].uri)]

\* the two loops swapped: each track n times in a row
QueuePlanSwapped(trks, n) ==
    IF n < 1 \/ trks = <<>> THEN <<>>
    ELSE [p \in 1..(n * Len(trks)) |-> trks[((p - 1) \div n) + 1]]

\* enqueue.py 273-275: the tracks the two nested loops walk through, in order
QueuePlan(trks, n) ==
    IF n < 1 \/ trks = <<>> THEN <<>>
    ELSE [p \in 1..(n * Len(trks)) |-> trks[((p - 1) % Len(trks)) + 1]]

\* a report only above 500
FailureReportAbove500(t, status) ==
    IF status > 500 THEN << <<"failed", t.name, t.artist, status>> >> ELSE <<>>

\* enqueue.py 276-277
FailureReport(t, status) ==
    IF status >= 300 THEN << <<"failed", t.name, t.artist, status>> >> ELSE <<>>

-----------------------------------------------------------------------------
(* Source browsing (queue_track, enqueue.py 428-485).                      *)

\* what -# gives: nothing, an index, or an index and a range size
OffsetValues ==
    {<<>>} \cup {<<i>> : i \in -1..MaxCount}
           \cup {<<i, n>> : i \in 0..MaxCount, n \in 2..MaxRan}

SourceArgs ==
    {[BaseArgs EXCEPT !.source = src, !.offset = o] :
        src \in Sources, o \in OffsetValues}
    \cup {[BaseArgs EXCEPT !.source = "SHELF"]}

\* enqueue.py 434: (args.offset[0] or -1) if args.offset else -1
RequestedIdx(o) == IF o # <<>> THEN (IF o[1] # 0 THEN o[1] ELSE -1) ELSE -1

\* enqueue.py 435
Ran(o) == IF Len(o) > 1 THEN o[2] ELSE 1

\* enqueue.py 441, 467: count > idx > -1
InRange(count, idx) == count > idx /\ idx > -1

\* enqueue.py 441-451 and 467-474: the offset of the page request, idx
\* being the requested index when it is in range and the random one otherwise
PageOffset(source, count, requested, idx, ran) ==
    IF source = "LIBRARY" THEN idx
    ELSE IF InRange(count, requested) THEN (count - idx) - ran + 1
    ELSE idx - ran + 1

\* The service's answer to limit/offset paging over count items: the item
\* numbers of the page, or an error object (no 'items') for an offset
\* below 0.
Page(count, offset, limit) ==
    IF offset < 0 THEN [ok |-> FALSE, items |-> <<>>]
    ELSE [ok |-> TRUE,
          items |-> [k \in 1..Max(0, Min(offset + limit, count) - offset) |->
                        offset + k - 1]]

\* keys of the dict built at 453 and 476, in insertion order: a label that
\* comes again is not inserted again
RECURSIVE DictKeys(_)
DictKeys(labels) ==
    IF labels = <<>> THEN <<>>
    ELSE LET front == DictKeys(SubSeq(labels, 1, Len(labels) - 1))
             last == labels[Len(labels)]
         IN  IF \E k \in 1..Len(front) : front[k] = last THEN front
             ELSE Append(front, last)

\* enqueue.py 453, 476: the labels of the page, reversed
MenuKeys(items) ==
    DictKeys([k \in 1..Len(items) |-> SourceLabel(items[Len(items) + 1 - k])])

\* a menu left without a choice
NoSelection == NoCount

\* a cancelled menu counted as a choice of its first entry
DropdownCancelPicksFirst(o_keys, selected) ==
    IF selected # NoSelection THEN [z |-> o_keys[selected + 1], offset |-> selected]
    ELSE [z |-> o_keys[1], offset |-> 0]

\* utilities.py 172-180
Dropdown(o_keys, selected) ==
    IF selected # NoSelection THEN [z |-> o_keys[selected + 1], offset |-> selected]
    ELSE [z |-> None, offset |-> NoSelection]

\* enqueue.py 457, 480: min(ran, len(items)) - 1 - offset
FlipOffset(ran, items, offset) == Min(ran, Len(items)) - 1 - offset

-----------------------------------------------------------------------------
(* The interactive group builder (make_group, enqueue.py 126-172).         *)

MakeGroupArgs == {[BaseArgs EXCEPT !.make_group = TRUE]}

\* what is typed at the prompts
GroupNames == {"mix"}
ItemInputs ==
    {"save", " Save ", "A", "-u spotify:track:C", "-c", "", "--bogus", "'A", "-h"}
ConfirmAnswers == {"y", " Y ", "n", "save"}

\* enqueue.py 141
IsSave(candidate_track) == Upper(Strip(candidate_track)) = "SAVE"

\* enqueue.py 158-163: shlex.split and the SongParser on the typed line.
\* An unknown option reaches SongParser.error (SongException); unbalanced
\* quoting raises ValueError in shlex.split; -h prints the help and leaves
\* through SystemExit(0).
ParseSpecifier(candidate_track) ==
    CASE candidate_track = "A" -> [kind |-> "title", title |-> "A", uri |-> None]
      [] candidate_track = "-u spotify:track:C" ->
            [kind |-> "uri", title |-> None, uri |-> "spotify:track:C"]
      [] candidate_track = "-c" -> [kind |-> "current", title |-> None, uri |-> None]
      [] candidate_track = "--bogus" -> [kind |-> "SongException", title |-> None, uri |-> None]
      [] candidate_track = "'A" -> [kind |-> "ValueError", title |-> None, uri |-> None]
      [] candidate_track = "-h" -> [kind |-> "SystemExit", title |-> None, uri |-> None]
      [] OTHER -> [kind |-> "none", title |-> None, uri |-> None]

\* every answer but n taken as a yes
ConfirmsUnlessNo(confirm) == Lower(Strip(confirm)) # "n"

\* enqueue.py 166-167: input(...).lower().strip() == 'y'
Confirms(confirm) == Lower(Strip(confirm)) = "y"

-----------------------------------------------------------------------------
(* The state machine.                                                      *)

NoPassed == [artist |-> None, title |-> None, uri |-> None]

InitShortFiles ==
    {Absent, Malformed, Json(EmptyDict), Json([m \in {"tracks"} |-> EmptyDict]),
     Json(EmptyMemory),
     Json([EmptyMemory EXCEPT !["tracks"] =
             Put(EmptyDict, MemKey("Blank Space", "Taylor Swift"),
                 ShortcutRecord(TrackC, "tracks"))])}

InitGroupFiles ==
    {Malformed,
     Json([g \in {"road-trip", "solo", "empty"} |->
             CASE g = "solo" -> <<TrackB>>
               [] g = "empty" -> <<>>
               [] OTHER -> <<TrackA, TrackB, TrackC>>])}

Init ==
    /\ shortFile \in InitShortFiles
    /\ groupFile \in InitGroupFiles
    /\ runs = 0
    /\ typed = <<>>
    /\ pc = "idle"
    /\ args = BaseArgs
    /\ passed = NoPassed
    /\ branch = "none"
    /\ tracks = <<>>
    /\ times = 1
    /\ qpos = 0
    /\ calls = <<>>
    /\ out = <<>>
    /\ outcome = "none"

\* enqueue.py 35-56: load_prefs at import; json.load on a malformed groups
\* file is not caught
StartupRaises == groupFile.state = "malformed"

\* A new process: queue_track up to the call of enqueue() (enqueue.py 359-588)
\* and enqueue()'s choice of branch.
Begin(a) ==
    /\ pc = "idle"
    /\ runs' = runs + 1
    /\ args' = a
    /\ tracks' = <<>>
    /\ times' = a.times
    /\ qpos' = 0
    /\ calls' = <<>>
    /\ out' = <<>>
    /\ IF StartupRaises \/ shortFile.state = "absent"
       THEN /\ pc' = "exit"
            /\ outcome' = IF StartupRaises THEN "JSONDecodeError"
                          ELSE "FileNotFoundError"
            /\ passed' = NoPassed
            /\ branch' = "none"
       ELSE /\ pc' = "resolve"
            /\ outcome' = "running"
            /\ passed' = Lookup(shortFile, a)
            /\ branch' = Branch(a.group, a.user, Lookup(shortFile, a).title,
                                Lookup(shortFile, a).uri, a.previous)
    /\ UNCHANGED <<shortFile, groupFile, typed>>

\* enqueue.py 261-271 and 280-281: what follows resolution
Proceed(trks, n, cs) ==
    /\ times' = n
    /\ qpos' = 0
    /\ outcome' = outcome
    /\ IF Ignore(args)
       THEN /\ tracks' = trks
            /\ calls' = cs
            /\ out' = out
            /\ pc' = "post"
       ELSE IF trks # <<>>
       THEN /\ tracks' = trks
            /\ out' = Append(out, <<"adding", IF TruthyCount(args.previous) THEN "last"
                                               ELSE Mode(args)>>)
            /\ calls' = IF ~TruthyCount(args.previous) /\ Mode(args) = "albums"
                        THEN Append(cs, <<"sleep", None, 2>>) ELSE cs
            /\ pc' = IF QueuePlan(trks, n) # <<>> THEN "queue" ELSE "post"
       ELSE /\ tracks' = <<>>
            /\ calls' = cs
            /\ out' = Append(out, <<"could_not_find">>)
            /\ pc' = "post"

\* enqueue.py 181-189
ResolveGroup ==
    /\ pc = "resolve" /\ branch = "group"
    /\ Proceed(Get(LoadGroups(groupFile), args.group, <<>>), times, calls)
    /\ UNCHANGED <<shortFile, groupFile, runs, typed, args, passed, branch>>

\* enqueue.py 190-195
ResolveUser ==
    /\ pc = "resolve" /\ branch = "user"
    /\ \E n \in 0..MaxChart :
         LET track_data == GetTopTracks(Chart(n), Max(DefaultWindow, times))
             \* the request, logged with the number of entries it returned
             cs == Append(calls, <<"top_tracks", args.user, Len(track_data)>>)
         IN  IF times > Len(track_data) \/ times < 0
             THEN \* random.sample raises ValueError
                  /\ pc' = "exit" /\ outcome' = "ValueError" /\ calls' = cs
                  /\ UNCHANGED <<tracks, times, qpos, out>>
             ELSE \E sample \in Samples(Len(track_data), times) :
                  \E found \in [1..times -> BOOLEAN] :
                     Proceed(UserTracks(track_data, sample, found), UserTimes(times),
                             cs \o [j \in 1..times |->
                                       <<"search", track_data[sample[j]].name, 0>>])
    /\ UNCHANGED <<shortFile, groupFile, runs, typed, args, passed, branch>>

\* enqueue.py 196-221
ResolveTitleUri ==
    /\ pc = "resolve" /\ branch = "title_uri"
    /\ IF Truthy(passed.uri)
       THEN Proceed(GetTrack(passed.uri), times, calls \o GetTrackCalls(passed.uri))
       ELSE \E hit \in BOOLEAN :
              LET s == Append(calls, <<"search", passed.title, 0>>)
              IN  IF ~hit THEN Proceed(<<>>, times, s)
                  ELSE Proceed(SearchTracks(Mode(args)), times,
                               IF Mode(args) = "albums"
                               THEN Append(s, <<"album_tracks", AlbumUri, 0>>) ELSE s)
    /\ UNCHANGED <<shortFile, groupFile, runs, typed, args, passed, branch>>

\* enqueue.py 222-235
ResolveLast ==
    /\ pc = "resolve" /\ branch = "last"
    /\ \E avail \in 0..Len(History) :
         LET responses == Reverse(SubSeq(History, 1, Min(args.previous, avail)))
             \* the request, logged with its limit and the number of items returned
             cs == Append(calls, <<"recently_played", None, args.previous,
                                   Len(responses)>>)
         IN  IF Mode(args) # "tracks"
             THEN /\ out' = Append(out, <<"only_tracks_requeue">>)
                  /\ pc' = "exit" /\ outcome' = "exit0" /\ calls' = cs
                  /\ UNCHANGED <<tracks, times, qpos>>
             ELSE Proceed(LastTracks(responses), times, cs)
    /\ UNCHANGED <<shortFile, groupFile, runs, typed, args, passed, branch>>

\* enqueue.py 236-259
ResolveCurrent ==
    /\ pc = "resolve" /\ branch = "current"
    /\ \E playing \in BOOLEAN :
         LET cs == Append(calls, <<"currently_playing", None, 0>>)
         IN  IF ~playing
             THEN /\ out' = Append(out, <<"no_track_playing">>)
                  /\ pc' = "exit" /\ outcome' = "exit1" /\ calls' = cs
                  /\ UNCHANGED <<tracks, times, qpos>>
             ELSE IF Mode(args) = "albums"
                  THEN Proceed(AlbumItems, times, Append(cs, <<"album_tracks", AlbumUri, 0>>))
                  ELSE Proceed(<<TrackA>>, times, cs)
    /\ UNCHANGED <<shortFile, groupFile, runs, typed, args, passed, branch>>

\* enqueue.py 273-277: one pass of the inner loop body
QueueAppend ==
    /\ pc = "queue"
    /\ \E status \in Statuses :
         LET plan == QueuePlan(tracks, times)
             t == plan[qpos + 1]
         IN  /\ calls' = Append(calls, <<"queue", t.uri, status>>)
             /\ out' = out \o FailureReport(t, status)
             /\ qpos' = qpos + 1
             /\ pc' = IF qpos + 1 = Len(plan) THEN "post" ELSE "queue"
    /\ UNCHANGED <<shortFile, groupFile, runs, typed, args, passed, branch, tracks, times,
                   outcome>>

\* The post-actions of queue_track (enqueue.py 590-684), each giving the
\* requests it sends, the lines it prints and how it ends.
NoStep == [calls |-> <<>>, out |-> <<>>, outcome |-> "ok"]

\* t.get("uri") for t in tracks if t.get("uri")
TrackUris(trks) == SelectSeq([i \in 1..Len(trks) |-> trks[i].uri], Truthy)

\* enqueue.py 590-603: the first item is looked up and its link copied.
\* The dicts made from a last.fm chart have no 'album_uri'.
ShareStep(a, how, trks, copied) ==
    IF ~Truthy(a.share) \/ trks = <<>> THEN NoStep
    ELSE IF Mode(a) = "albums" /\ how = "user"
    THEN [calls |-> <<>>, out |-> <<>>, outcome |-> "KeyError"]
    ELSE IF Mode(a) = "albums" /\ ~Truthy(trks[1].album_uri)
    THEN [calls |-> <<>>, out |-> <<>>, outcome |-> "AttributeError"]
    ELSE [calls |-> << <<"share_item",
                         IF Mode(a) = "albums" THEN trks[1].album_uri ELSE trks[1].uri,
                         0>> >>,
          out |-> << <<IF copied THEN "copying_share_link" ELSE "failed_to_copy">> >>,
          outcome |-> "ok"]

\* enqueue.py 604-619
ShortcutStep(a, file, trks) ==
    IF a.remember = <<>> \/ trks = <<>> THEN [file |-> file, step |-> NoStep]
    ELSE LET r == RememberTrack(file, a.remember[1], Second(a.remember), trks,
                                Mode(a), FALSE)
         IN  [file |-> r.file,
              step |-> [calls |-> <<>>,
                        out |-> << <<"creating_shortcut", a.remember[1]>> >> \o r.out,
                        outcome |-> IF r.raised THEN "KeyError" ELSE "ok"]]

\* enqueue.py 638-654 (--watch not given): configured says whether
\* preferences.json names a playlist to save to
SaveStep(a, trks, configured, status) ==
    IF ~a.save THEN NoStep
    ELSE IF ~configured
    THEN [calls |-> <<>>, out |-> << <<"no_valid_playlists">> >>, outcome |-> "ok"]
    ELSE IF TrackUris(trks) = <<>>
    THEN [calls |-> <<>>, out |-> << <<"no_tracks_found">> >>, outcome |-> "ok"]
    ELSE [calls |-> << <<"playlist_add", None, Len(TrackUris(trks))>> >>,
          out |-> << <<IF status >= 200 /\ status < 300 THEN "added_to_playlist"
                       ELSE "playlist_add_failed">> >>,
          outcome |-> "ok"]

\* enqueue.py 655-664
LikeStep(a, trks, status) ==
    IF ~a.like THEN NoStep
    ELSE [calls |-> << <<"like", None, Len(TrackUris(trks))>> >>,
          out |-> << <<IF status >= 200 /\ status < 300 THEN "added_to_liked"
                       ELSE "like_failed">> >>,
          outcome |-> "ok"]

\* enqueue.py 665-684: lastfm says whether preferences.json has LASTFM_USER.
\* 'album' is a dict in the tracks built from a track search and from the
\* recently played list, and None in those built from a last.fm chart, so
\* .replace fails on them; the pages opened are one entry of calls.
OpenStep(a, how, given, trks, lastfm) ==
    IF ~a.open THEN NoStep
    ELSE IF ~lastfm
    THEN [calls |-> <<>>, out |-> << <<"no_lastfm_username">> >>, outcome |-> "ok"]
    ELSE IF trks = <<>> THEN NoStep
    ELSE IF \/ how \in {"user", "last"}
            \/ how = "title_uri" /\ ~Truthy(given.uri) /\ Mode(a) = "tracks"
    THEN [calls |-> <<>>, out |-> <<>>, outcome |-> "AttributeError"]
    ELSE [calls |-> << <<"open_library", IF a.album THEN "album" ELSE "artist", 0>> >>,
          out |-> <<>>, outcome |-> "ok"]

\* the steps in their order, up to the first that raises
RECURSIVE RunSteps(_)
RunSteps(steps) ==
    IF steps = <<>> THEN NoStep
    ELSE IF Head(steps).outcome # "ok" THEN Head(steps)
    ELSE LET rest == RunSteps(Tail(steps))
         IN  [calls |-> Head(steps).calls \o rest.calls,
              out |-> Head(steps).out \o rest.out,
              outcome |-> rest.outcome]

\* enqueue.py 590-684: the post-actions, then the process ends
PostActions ==
    /\ pc = "post"
    /\ pc' = "exit"
    /\ \E copied \in (IF Truthy(args.share) THEN BOOLEAN ELSE {FALSE}),
          configured \in (IF args.save THEN BOOLEAN ELSE {FALSE}),
          lastfm \in (IF args.open THEN BOOLEAN ELSE {FALSE}),
          saved \in (IF args.save THEN Statuses ELSE {204}),
          liked \in (IF args.like THEN Statuses ELSE {204}) :
         LET share == ShareStep(args, branch, tracks, copied)
             remember == ShortcutStep(args, shortFile, tracks)
             done == RunSteps(<< share, remember.step,
                                 SaveStep(args, tracks, configured, saved),
                                 LikeStep(args, tracks, liked),
                                 OpenStep(args, branch, passed, tracks, lastfm) >>)
         IN  /\ shortFile' = IF share.outcome = "ok" THEN remember.file ELSE shortFile
             /\ calls' = calls \o done.calls
             /\ out' = out \o done.out
             /\ outcome' = done.outcome
    /\ UNCHANGED <<groupFile, runs, typed, args, passed, branch, tracks, times, qpos>>

\* enqueue.py 487-500: a new process run with --forget
ForgetCmd(a) ==
    /\ pc = "idle"
    /\ runs' = runs + 1
    /\ args' = a
    /\ passed' = NoPassed
    /\ branch' = "none"
    /\ tracks' = <<>>
    /\ times' = a.times
    /\ qpos' = 0
    /\ calls' = <<>>
    /\ pc' = "exit"
    /\ IF StartupRaises
       THEN /\ outcome' = "JSONDecodeError"
            /\ out' = <<>>
            /\ UNCHANGED shortFile
       ELSE LET r == RememberTrack(shortFile, a.forget[1], Second(a.forget), <<>>,
                                   Mode(a), TRUE)
            IN  /\ shortFile' = r.file
                /\ out' = << <<"deleting_shortcut", a.forget[1]>> >> \o r.out
                /\ outcome' = IF r.raised THEN "KeyError" ELSE "ok"
    /\ UNCHANGED <<groupFile, typed>>

\* enqueue.py 367-380: --pause and --playpause
PlayPause(a, reachable, is_playing) ==
    LET player == << <<"player", None, 0>> >>
    IN  IF ~reachable
        THEN [calls |-> player, out |-> << <<"no_active_device">> >>, outcome |-> "exit0"]
        ELSE IF is_playing
        THEN [calls |-> Append(player, <<"pause", None, 0>>),
              out |-> << <<"pausing">> >>, outcome |-> "exit0"]
        ELSE IF ~a.pause
        THEN [calls |-> Append(player, <<"play", None, 0>>),
              out |-> << <<"resuming">> >>, outcome |-> "exit0"]
        ELSE [calls |-> player, out |-> <<>>, outcome |-> "exit0"]

\* enqueue.py 383-397: --queue, over a play queue of n entries
ListQueue(n) ==
    IF n = 0
    THEN [calls |-> << <<"player_queue", None, 0>> >>,
          out |-> << <<"no_track_playing">> >>, outcome |-> "exit0"]
    ELSE [calls |-> << <<"player_queue", None, n>>, <<"current", None, 0>> >>,
          out |-> << <<"queue_listing", n>> >>, outcome |-> "exit0"]

\* enqueue.py 398-411: --next n with n > 0; done is the number of skips the
\* service took before it answered 404
SkipTracks(n, done) ==
    LET taken == [i \in 1..Min(done, n) |-> <<"skip", None, 204>>]
    IN  IF done < n
        THEN [calls |-> Append(taken, <<"skip", None, 404>>),
              out |-> << <<"attempting_skip", n>>, <<"no_track_playing">> >>,
              outcome |-> "exit1"]
        ELSE [calls |-> taken \o << <<"sleep", None, 1>>, <<"current", None, 0>> >>,
              out |-> << <<"attempting_skip", n>>, <<"now_playing">> >>,
              outcome |-> "exit0"]

\* enqueue.py 412-426: --playlist; puri is what preferences.json gives
TransferPlaylist(a, puri, status) ==
    IF ~Truthy(puri)
    THEN [calls |-> <<>>, out |-> << <<"cannot_restore_playback">> >>, outcome |-> "exit0"]
    ELSE [calls |-> << <<"play_context", puri, status>> >>,
          out |-> << <<IF status >= 200 /\ status < 300 THEN "transferred_playback"
                       ELSE "transfer_failed">> >>,
          outcome |-> "exit0"]

\* enqueue.py 501-508: --which
Which(playing) ==
    [calls |-> << <<"currently_playing", None, IF playing THEN 200 ELSE 204>> >>,
     out |-> << <<IF playing THEN "now_playing" ELSE "no_track_playing">> >>,
     outcome |-> "ok"]

\* enqueue.py 510-525: --delete_group; the group file is written again
DeleteGroup(file, name) ==
    LET groups == LoadGroups(file)
    IN  IF name \in DOMAIN groups
        THEN [calls |-> << <<"sleep", None, 2>> >>,
              out |-> << <<"deleting_group", name>> >>, outcome |-> "ok",
              file |-> Json(Del(groups, name))]
        ELSE [calls |-> <<>>, out |-> << <<"group_not_found", name>> >>,
              outcome |-> "ok", file |-> Json(groups)]

\* enqueue.py 527-562: --list_rules, a heading for the groups and one for
\* each partition that holds a shortcut
ListRules(groups, shorts) ==
    LET heading(m) ==
            IF shorts.state = "json" /\ Get(shorts.data, m, EmptyDict) # EmptyDict
            THEN << <<"shortcuts_of", m>> >> ELSE <<>>
    IN  [calls |-> <<>>,
         out |-> (IF LoadGroups(groups) # EmptyDict THEN << <<"saved_groups">> >> ELSE <<>>)
                 \o heading("tracks") \o heading("albums"),
         outcome |-> "ok"]

\* A new process run with a transport or housekeeping command: queue_track
\* from parse_args to the end of the handler (enqueue.py 359-562).
Command(a) ==
    /\ pc = "idle"
    /\ Handler(a) \in {"playpause", "queue", "next", "playlist", "which",
                       "delete_group", "list_rules"}
    /\ runs' = runs + 1
    /\ args' = a
    /\ passed' = NoPassed
    /\ branch' = "none"
    /\ tracks' = <<>>
    /\ times' = a.times
    /\ qpos' = 0
    /\ pc' = "exit"
    /\ IF StartupRaises
       THEN /\ outcome' = "JSONDecodeError"
            /\ calls' = <<>>
            /\ out' = <<>>
            /\ UNCHANGED groupFile
       ELSE \E done \in
                CASE Handler(a) = "playpause" ->
                        {PlayPause(a, r, p) : r \in BOOLEAN, p \in BOOLEAN}
                  [] Handler(a) = "queue" -> {ListQueue(n) : n \in 0..1}
                  [] Handler(a) = "next" -> {SkipTracks(a.next, k) : k \in 0..a.next}
                  [] Handler(a) = "playlist" ->
                        {TransferPlaylist(a, puri, st) :
                            puri \in {None, "primary"}, st \in Statuses}
                  [] Handler(a) = "which" -> {Which(p) : p \in BOOLEAN}
                  [] Handler(a) = "delete_group" ->
                        {[f \in {"calls", "out", "outcome"} |->
                            DeleteGroup(groupFile, a.delete_group)[f]]}
                  [] OTHER -> {ListRules(groupFile, shortFile)} :
              /\ calls' = done.calls
              /\ out' = done.out
              /\ outcome' = done.outcome
              /\ groupFile' = IF Handler(a) = "delete_group"
                              THEN DeleteGroup(groupFile, a.delete_group).file
                              ELSE groupFile
    /\ UNCHANGED <<shortFile, typed>>

\* The process is gone; the next one starts from the files it left
\* (__main__, enqueue.py 686-690).
Restart ==
    /\ pc = "exit"
    /\ runs < MaxRuns
    /\ pc' = "idle"
    /\ args' = BaseArgs
    /\ passed' = NoPassed
    /\ branch' = "none"
    /\ tracks' = <<>>
    /\ times' = 1
    /\ qpos' = 0
    /\ calls' = <<>>
    /\ out' = <<>>
    /\ outcome' = "none"
    /\ typed' = <<>>
    /\ UNCHANGED <<shortFile, groupFile, runs>>

\* the invocation ends inside queue_track, before enqueue() is called
BrowseEnds(a, how, cs, lines, entered) ==
    /\ pc' = "exit"
    /\ outcome' = how
    /\ args' = a
    /\ passed' = NoPassed
    /\ branch' = "none"
    /\ calls' = cs
    /\ out' = lines
    /\ typed' = entered

\* enqueue.py 459-460, 482 and then 564-588: args.uri is set and the
\* invocation goes on to the shortcut lookup and enqueue()
BrowseGoesOn(a, cs, lines, entered) ==
    IF shortFile.state = "absent"
    THEN BrowseEnds(a, "FileNotFoundError", cs, lines, entered)
    ELSE /\ pc' = "resolve"
         /\ outcome' = "running"
         /\ args' = a
         /\ passed' = Lookup(shortFile, a)
         /\ branch' = Branch(a.group, a.user, Lookup(shortFile, a).title,
                             Lookup(shortFile, a).uri, a.previous)
         /\ calls' = cs
         /\ out' = lines
         /\ typed' = entered

\* enqueue.py 452-462 and 475-482: from the returned page to args.uri
BrowsePick(a, idx, page, cs, lines) ==
    LET ran == Ran(a.offset)
        items == page.items
        o_keys == MenuKeys(items)
    IN  IF ~page.ok THEN BrowseEnds(a, "TypeError", cs, lines, <<>>)
        ELSE IF items = <<>> THEN BrowseEnds(a, "IndexError", cs, lines, <<>>)
        ELSE \E selected \in {NoSelection} \cup (0..(Len(o_keys) - 1)) :
               LET picked == Dropdown(o_keys, selected)
                   entered == IF ran > 1 THEN << <<"menu", selected>> >> ELSE <<>>
                   offset == IF ran > 1 THEN FlipOffset(ran, items, picked.offset) ELSE 0
                   uri == SourceUri(a.source, items[offset + 1])
               IN  IF ran > 1 /\ ~Truthy(picked.z)
                   THEN BrowseEnds(a, "exit0", cs, lines, entered)
                   ELSE IF a.source = "BACKLOG" /\ ~Truthy(uri)
                   THEN BrowseEnds(a, "exit0", cs, Append(lines, <<"cannot_queue_local">>),
                                   entered)
                   ELSE BrowseGoesOn([a EXCEPT !.uri = uri], cs, lines, entered)

\* A new process run with --source: queue_track, enqueue.py 428-485, up to
\* the call of enqueue().  backlog_uri is what preferences.json gives for
\* PLAYLISTS.BACKLOG, count the total the service reports, rnd the value
\* random.randint returns when it is asked.
Browse(a) ==
    /\ pc = "idle"
    /\ runs' = runs + 1
    /\ tracks' = <<>>
    /\ times' = a.times
    /\ qpos' = 0
    /\ UNCHANGED <<shortFile, groupFile>>
    /\ IF StartupRaises THEN BrowseEnds(a, "JSONDecodeError", <<>>, <<>>, <<>>)
       ELSE IF a.source \notin Sources
       THEN BrowseEnds(a, "exit1", <<>>, << <<"source_must_be_one_of">> >>, <<>>)
       ELSE \E backlog_uri \in {"", "backlog"} :
            IF a.source = "BACKLOG" /\ ~Truthy(backlog_uri)
            THEN BrowseEnds(a, "exit1", <<>>, << <<"no_backlog_playlist">> >>, <<>>)
            ELSE \E count \in 0..MaxCount : \E rnd \in 0..Max(count - 1, 0) :
                 LET requested == RequestedIdx(a.offset)
                     ran == Ran(a.offset)
                     total == << <<IF a.source = "BACKLOG" THEN "playlist_total"
                                   ELSE "library_total", None, count>> >>
                     idx == IF InRange(count, requested) THEN requested ELSE rnd
                     lines == IF InRange(count, requested) THEN <<>>
                              ELSE << <<"choosing_random", idx, count, ran>> >>
                     offset == PageOffset(a.source, count, requested, idx, ran)
                     cs == Append(total, <<IF a.source = "BACKLOG" THEN "playlist_page"
                                           ELSE "library_page", None, offset, ran>>)
                 IN  IF ~InRange(count, requested) /\ count < 1
                     THEN \* random.randint(0, -1) raises ValueError
                          BrowseEnds(a, "ValueError", total, <<>>, <<>>)
                     ELSE BrowsePick(a, idx, Page(count, offset, ran), cs, lines)

\* A new process run with --make_group: queue_track reaches make_group()
\* (enqueue.py 509), which asks for the group's name (128).
MakeGroup(a, name) ==
    /\ pc = "idle"
    /\ runs' = runs + 1
    /\ args' = a
    /\ passed' = NoPassed
    /\ branch' = "none"
    /\ tracks' = <<>>
    /\ times' = a.times
    /\ qpos' = 0
    /\ calls' = <<>>
    /\ out' = <<>>
    /\ IF StartupRaises
       THEN /\ pc' = "exit" /\ outcome' = "JSONDecodeError" /\ typed' = <<>>
       ELSE /\ pc' = "group_item" /\ outcome' = "running"
            /\ typed' = << <<"name", name>> >>
    /\ UNCHANGED <<shortFile, groupFile>>

ItemsTyped == SelectSeq(typed, LAMBDA e : e[1] = "item")

\* enqueue.py 165-167: a track was found and the user is asked
GroupConfirm(track, cs, entered) ==
    \E confirm \in ConfirmAnswers :
        /\ typed' = Append(entered, <<"confirm", confirm>>)
        /\ out' = Append(out, <<"found_track", track.name, track.artist>>)
        /\ tracks' = IF Confirms(confirm) THEN Append(tracks, track) ELSE tracks
        /\ calls' = cs
        /\ pc' = "group_item"
        /\ outcome' = outcome

\* enqueue.py 168-172: nothing found, or the specifier was refused
GroupReport(line, cs, entered) ==
    /\ typed' = entered
    /\ out' = Append(out, line)
    /\ tracks' = tracks
    /\ calls' = cs
    /\ pc' = "group_item"
    /\ outcome' = outcome

\* an exception other than SongException, or SystemExit, leaves make_group
GroupLeaves(how, entered) ==
    /\ typed' = entered
    /\ pc' = "exit"
    /\ outcome' = how
    /\ UNCHANGED <<out, tracks, calls>>

\* enqueue.py 139-172: one pass of the while loop
GroupItem ==
    /\ pc = "group_item"
    /\ \E candidate_track \in ItemInputs :
         LET name == typed[1][2]
             entered == Append(typed, <<"item", candidate_track>>)
             parsed == ParseSpecifier(candidate_track)
         IN  IF IsSave(candidate_track)
             THEN /\ typed' = entered
                  /\ pc' = "exit"
                  /\ outcome' = "ok"
                  /\ UNCHANGED <<tracks, calls>>
                  /\ IF Len(tracks) > 0
                     THEN /\ groupFile' = Json(Put(LoadGroups(groupFile), name, tracks))
                          /\ out' = out
                     ELSE /\ groupFile' = groupFile
                          /\ out' = Append(out, <<"no_tracks_specified">>)
             ELSE /\ Len(ItemsTyped) < MaxItems
                  /\ groupFile' = groupFile
                  /\ CASE parsed.kind = "ValueError" -> GroupLeaves("ValueError", entered)
                       [] parsed.kind = "SystemExit" -> GroupLeaves("exit0", entered)
                       [] parsed.kind \in {"SongException", "none"} ->
                            GroupReport(<<"invalid_specifier">>, calls, entered)
                       [] parsed.kind = "title" ->
                            \E hit \in BOOLEAN :
                              LET s == Append(calls, <<"search", parsed.title, 0>>)
                              IN  IF hit
                                  THEN GroupConfirm(GetTrack(TrackA.uri)[1],
                                                    s \o GetTrackCalls(TrackA.uri), entered)
                                  ELSE GroupReport(<<"no_matching_track">>, s, entered)
                       [] parsed.kind = "uri" ->
                            GroupConfirm(GetTrack(parsed.uri)[1],
                                         calls \o GetTrackCalls(parsed.uri), entered)
                       [] parsed.kind = "current" ->
                            \E playing \in BOOLEAN :
                              LET c == Append(calls, <<"currently_playing", None, 0>>)
                              IN  IF playing
                                  THEN GroupConfirm(GetTrack(TrackA.uri)[1],
                                                    c \o GetTrackCalls(TrackA.uri), entered)
                                  ELSE GroupReport(<<"no_matching_track">>, c, entered)
    /\ UNCHANGED <<shortFile, runs, args, passed, branch, times, qpos>>

Next ==
    \/ \E a \in QueueArgs : Begin(a)
    \/ \E a \in ForgetArgs : ForgetCmd(a)
    \/ ResolveGroup
    \/ ResolveUser
    \/ ResolveTitleUri
    \/ ResolveLast
    \/ ResolveCurrent
    \/ QueueAppend
    \/ PostActions
    \/ Restart

Spec == Init /\ [][Next]_vars

\* invocations with --source
NextBrowse ==
    \/ \E a \in SourceArgs : Browse(a)
    \/ ResolveTitleUri
    \/ QueueAppend
    \/ PostActions
    \/ Restart

SpecBrowse == Init /\ [][NextBrowse]_vars

\* invocations that ask for something other than queuing
NextCommands ==
    \/ \E a \in CommandArgs : Command(a)
    \/ \E a \in CommandArgs \cup FlagArgs : Handler(a) = "enqueue" /\ Begin(a)
    \/ \E a \in ForgetArgs : ForgetCmd(a)
    \/ ResolveGroup
    \/ ResolveUser
    \/ ResolveTitleUri
    \/ ResolveLast
    \/ ResolveCurrent
    \/ QueueAppend
    \/ PostActions
    \/ Restart

SpecCommands == Init /\ [][NextCommands]_vars

\* invocations that resolve a uri
NextUri ==
    \/ \E a \in UriOnlyArgs : Begin(a)
    \/ ResolveTitleUri
    \/ PostActions
    \/ Restart

SpecUri == Init /\ [][NextUri]_vars

\* invocations with --make_group; the shortcut file plays no part
InitGroups == Init /\ shortFile = Json(EmptyMemory)

NextGroups ==
    \/ \E a \in MakeGroupArgs, name \in GroupNames : MakeGroup(a, name)
    \/ GroupItem
    \/ Restart

SpecGroups == InitGroups /\ [][NextGroups]_vars

-----------------------------------------------------------------------------
(* What the properties read off the state.                                 *)

Range(seq) == {seq[i] : i \in 1..Len(seq)}
IsQueueCall(c) == c[1] = "queue"
QueueCalls == SelectSeq(calls, IsQueueCall)
QueuedUris == [i \in 1..Len(QueueCalls) |-> QueueCalls[i][2]]
CallKinds == {c[1] : c \in Range(calls)}
Uris(trks) == [i \in 1..Len(trks) |-> trks[i].uri]
IsPrefix(a, b) == Len(a) <= Len(b) /\ a = SubSeq(b, 1, Len(a))

RECURSIVE Repeat(_, _)
Repeat(seq, n) == IF n < 1 THEN <<>> ELSE seq \o Repeat(seq, n - 1)

RaisedOutcomes ==
    {"ValueError", "KeyError", "FileNotFoundError", "JSONDecodeError", "TypeError",
     "IndexError"}

OutKinds == {out[i][1] : i \in 1..Len(out)}

\* the status the process ends with: 0 when queue_track returns or calls
\* exit(0), 1 on exit(1) and on an uncaught exception (enqueue.py 686-690)
ExitCode == IF outcome \in {"ok", "exit0"} THEN 0 ELSE 1

\* enqueue() ran to its return and nothing else has been queued since
EnqueueReturned ==
    \/ pc = "post"
    \/ pc = "exit" /\ branch # "none" /\ outcome \in {"ok", "KeyError"}

-----------------------------------------------------------------------------
(* C1: when enqueue goes on to queue (no ignore-type flag, a branch other  *)
(* than remote-user) a resolved list of k tracks with times >= 1, the      *)
(* uris of its queue-append calls are the resolved list repeated times     *)
(* times, in resolved order: times*k calls in all, and at every moment    *)
(* before that a prefix of this sequence.                                  *)
C1_QueueOrder ==
    (branch \notin {"none", "user"} /\ ~Ignore(args) /\ args.times >= 1)
    => /\ IsPrefix(QueuedUris, Repeat(Uris(tracks), args.times))
       /\ EnqueueReturned =>
            /\ QueuedUris = Repeat(Uris(tracks), args.times)
            /\ Len(QueueCalls) = args.times * Len(tracks)

C1_Witness ==
    /\ pc = "post" /\ branch = "group" /\ ~Ignore(args) /\ args.times = 2
    /\ QueuedUris = <<TrackA.uri, TrackB.uri, TrackC.uri,
                      TrackA.uri, TrackB.uri, TrackC.uri>>

(* C2: a queue-append call answered with a non-success status never halts  *)
(* the batch: whatever the statuses, the calls issued are the resolved     *)
(* list repeated, and the failure lines printed are exactly one per failed *)
(* call, in call order, naming that call's track and status, and none for  *)
(* a call that succeeded.                                                  *)
Failed(status) == status \notin 200..299
FailureLines == SelectSeq(out, LAMBDA l : l[1] = "failed")
RECURSIVE ExpectedFailures(_, _)
ExpectedFailures(plan, qcalls) ==
    IF qcalls = <<>> THEN <<>>
    ELSE (IF Failed(Head(qcalls)[3])
          THEN << <<"failed", Head(plan).name, Head(plan).artist, Head(qcalls)[3]>> >>
          ELSE <<>>)
         \o ExpectedFailures(Tail(plan), Tail(qcalls))

C2_FailuresDoNotHalt ==
    (EnqueueReturned /\ ~Ignore(args))
    => /\ QueuedUris = Repeat(Uris(tracks), times)
       /\ FailureLines = ExpectedFailures(Repeat(tracks, times), QueueCalls)

C2_Witness ==
    /\ pc = "post" /\ branch = "group" /\ args.times = 2
    /\ Len(QueueCalls) = 6
    /\ QueueCalls[2][3] = 500 /\ QueueCalls[5][3] = 500
    /\ \A i \in {1, 3, 4, 6} : QueueCalls[i][3] = 204
    /\ FailureLines = << <<"failed", "B", "Taylor Swift", 500>>,
                         <<"failed", "B", "Taylor Swift", 500>> >>

(* C3: enqueue takes exactly one branch, the highest in the order group,   *)
(* remote-user, title-or-uri, last-N-played, currently-playing whose input *)
(* is given (a value Python counts as true: not None, not empty, not 0),   *)
(* and sends no request that belongs to a branch below it.                 *)
BranchOrder == <<"group", "user", "title_uri", "last", "current">>
Given ==
    (IF args.group \notin {None, ""} THEN {1} ELSE {})
        \cup (IF args.user \notin {None, ""} THEN {2} ELSE {})
        \cup (IF {passed.title, passed.uri} \ {None, ""} # {} THEN {3} ELSE {})
        \cup (IF args.previous \notin {NoCount, 0} THEN {4} ELSE {})
        \cup {5}
Highest == CHOOSE r \in Given : \A q \in Given : r <= q
OwnKinds(b) ==
    CASE b = "group" -> {}
      [] b = "user" -> {"top_tracks", "search"}
      [] b = "title_uri" -> {"search", "get_track", "get_album", "album_tracks"}
      [] b = "last" -> {"recently_played"}
      [] b = "current" -> {"currently_playing", "album_tracks"}

ShortcutOf(file, a) ==
    Get(Get(LoadMemory(file), Mode(a), EmptyDict),
        MemKey(a.title, a.artist), NoRecord)
HasShortcut(file, a) ==
    MemKey(a.title, a.artist) \in DOMAIN Get(LoadMemory(file), Mode(a), EmptyDict)
ShortcutCase ==
    /\ pc = "post" /\ Truthy(args.title) /\ HasShortcut(shortFile, args)
    /\ ~args.amnesia /\ ~Truthy(args.uri) /\ ~Truthy(args.group) /\ ~Truthy(args.user)

C4_ShortcutSkipsSearch ==
    ShortcutCase
    => /\ passed.uri = ShortcutOf(shortFile, args).relevant_uri
       /\ "search" \notin CallKinds
       /\ tracks = GetTrack(ShortcutOf(shortFile, args).relevant_uri)

\* the same, for the shortcuts that do carry a uri
C4_HoldsForRecordsWithUri ==
    (ShortcutCase /\ Truthy(ShortcutOf(shortFile, args).relevant_uri))
    => /\ passed.uri = ShortcutOf(shortFile, args).relevant_uri
       /\ tracks = GetTrack(ShortcutOf(shortFile, args).relevant_uri)
       /\ "search" \notin CallKinds

(* C5: with --amnesia the shortcut table has no influence: title, artist   *)
(* and uri handed to resolution are those an empty table gives, so a title *)
(* without --uri is searched afresh.                                       *)
C5_AmnesiaBypassesShortcuts ==
    (branch # "none" /\ args.amnesia)
    => /\ passed = Lookup(Json(EmptyMemory), args)
       /\ (pc = "post" /\ branch = "title_uri" /\ ~Truthy(args.uri))
            => "search" \in CallKinds

(* C6: forget of a key that has no shortcut reports "not found", raises    *)
(* nothing and leaves the shortcut file as it was, whatever the file was   *)
(* (populated, empty, absent, without the mode's partition).               *)
C6_ForgetMissingKeyIsNoOp ==
    [][(/\ pc = "idle" /\ pc' = "exit" /\ args'.forget # <<>>
        /\ ~StartupRaises
        /\ ~HasShortcut(shortFile, [args' EXCEPT !.title = args'.forget[1],
                                                 !.artist = Second(args'.forget)]))
       => /\ outcome' = "ok"
          /\ shortFile' = shortFile
          /\ \E l \in Range(out') : l[1] = "shortcut_not_found"]_vars

(* C7: every record in the shortcut file carries a relevant_uri that is    *)
(* not null: remember stores one with a uri or stores none.                *)
C7_RecordsCarryUri ==
    \A m \in DOMAIN shortFile.data :
        \A k \in DOMAIN shortFile.data[m] :
            shortFile.data[m][k].relevant_uri \notin {None, ""}

(* C8: no queue-append call is issued for a track whose uri is empty or    *)
(* absent.                                                                 *)
C8_NoAppendWithoutUri ==
    \A c \in Range(calls) : IsQueueCall(c) => c[2] \notin {None, ""}

(* C9: remote-user resolution asked for times entries of a window of n     *)
(* returns min(times, n) entries at distinct positions of the window and   *)
(* raises nothing, also when times exceeds n.                              *)
WindowSize == (CHOOSE c \in Range(calls) : c[1] = "top_tracks")[3]
C9_SampleIsBestEffort ==
    (branch = "user" /\ pc # "resolve" /\ args.times >= 0)
    => /\ outcome # "ValueError"
       /\ Len(tracks) = Min(args.times, WindowSize)
       /\ \A i, j \in 1..Len(tracks) : i # j => tracks[i].name # tracks[j].name

(* C10: in the remote-user branch with times >= 1 the repeat count becomes *)
(* 1: each sampled track gets exactly one queue-append call, in sampled    *)
(* order, so the calls number as many as the sampled tracks.               *)
C10_UserRepeatCollapses ==
    (branch = "user" /\ ~Ignore(args) /\ args.times >= 1)
    => /\ IsPrefix(QueuedUris, Uris(tracks))
       /\ EnqueueReturned =>
            /\ QueuedUris = Uris(tracks)
            /\ Len(QueueCalls) = Len(tracks)
            /\ Len(tracks) = args.times

C10_Witness ==
    /\ pc = "post" /\ branch = "user" /\ ~Ignore(args) /\ args.times = 2
    /\ Len(tracks) = 2 /\ Len(QueueCalls) = 2

(* C11: when the last-N-played branch is reached in album mode the         *)
(* invocation sends no request at all (no play-history read, no            *)
(* queue-append), prints the "only tracks can be re-queued" line and ends  *)
(* with exit code 0 without queuing.                                       *)
LastInAlbumMode == branch = "last" /\ Mode(args) = "albums" /\ pc # "resolve"

C11_LastAlbumNoRequests ==
    LastInAlbumMode
    => /\ calls = <<>>
       /\ OutKinds = {"only_tracks_requeue"}
       /\ outcome = "exit0"

\* what does hold there: the rejection line, exit(0) and no queue-append
C11_LastAlbumNoQueue ==
    LastInAlbumMode
    => /\ QueueCalls = <<>>
       /\ OutKinds = {"only_tracks_requeue"}
       /\ outcome = "exit0"
       /\ tracks = <<>>

(* C12: in track mode the last-N-played branch asks for N entries and      *)
(* resolves to the entries the service returned, oldest first (position i  *)
(* of the result is position k+1-i of the most-recent-first history, k     *)
(* the number returned, k <= N); the queue-append calls follow that order. *)
PlayedCall == CHOOSE c \in Range(calls) : c[1] = "recently_played"

C12_LastIsChronological ==
    (branch = "last" /\ Mode(args) = "tracks" /\ pc # "resolve")
    => /\ PlayedCall[3] = args.previous
       /\ Len(tracks) = PlayedCall[4]
       /\ Len(tracks) <= args.previous
       /\ \A i \in 1..Len(tracks) :
            tracks[i].uri = History[Len(tracks) + 1 - i].uri
       /\ ~Ignore(args) =>
            /\ IsPrefix(QueuedUris, Repeat(Uris(tracks), args.times))
            /\ EnqueueReturned => QueuedUris = Repeat(Uris(tracks), args.times)

C12_Witness ==
    /\ pc = "post" /\ branch = "last" /\ args.previous = 2 /\ args.times = 1
    /\ ~Ignore(args)
    /\ Uris(tracks) = <<TrackB.uri, TrackC.uri>>
    /\ QueuedUris = <<TrackB.uri, TrackC.uri>>

(* C13: a queue request for a group that is missing from the groups file,  *)
(* or whose list is empty, or when the groups file is malformed, raises    *)
(* nothing, sends no queue-append call, leaves the groups file as it was   *)
(* and ends after printing "could not find track(s)".                      *)
GroupUnresolvable(file, a) ==
    /\ Truthy(a.group) /\ a.forget = <<>> /\ ~Ignore(a)
    /\ Get(LoadGroups(file), a.group, <<>>) = <<>>

C13_UnresolvableGroupIsEmpty ==
    [][GroupUnresolvable(groupFile, args')
       => /\ groupFile' = groupFile
          /\ outcome' \notin RaisedOutcomes
          /\ \A i \in 1..Len(calls') : calls'[i][1] # "queue"
          /\ pc' = "exit" => \E i \in 1..Len(out') : out'[i][1] = "could_not_find"]_vars

\* the same once both files have loaded (group missing or empty)
C13_HoldsOnceLoaded ==
    (branch = "group" /\ GroupUnresolvable(groupFile, args)
        /\ pc \in {"post", "exit"})
    => /\ outcome \notin RaisedOutcomes
       /\ QueueCalls = <<>>
       /\ tracks = <<>>
       /\ OutKinds = {"could_not_find"}

(* C14: every invocation in which no playable content is found (search     *)
(* without a hit, missing or empty group, nothing currently playing) ends  *)
(* with exit code 1 after its message, without crashing and with no        *)
(* queue-append call.                                                      *)
NothingFound == OutKinds \cap {"could_not_find", "no_track_playing"} # {}

C14_NothingFoundExitsOne ==
    (pc = "exit" /\ NothingFound)
    => /\ ExitCode = 1
       /\ outcome \notin RaisedOutcomes
       /\ QueueCalls = <<>>

\* what does hold: exit(1) when nothing is playing, and no call either way
C14_NothingPlayingExitsOne ==
    (pc = "exit" /\ NothingFound)
    => /\ QueueCalls = <<>>
       /\ outcome \notin RaisedOutcomes
       /\ "no_track_playing" \in OutKinds => (outcome = "exit1" /\ ExitCode = 1)
       /\ "could_not_find" \in OutKinds => (outcome = "ok" /\ ExitCode = 0)

(* C15: in album mode, whatever the other flags (--previous next to a      *)
(* title or uri included), every queue-append call is preceded by the      *)
(* cancel-window sleep.                                                    *)
SleptBefore(i) == \E j \in 1..(i - 1) : calls[j][1] = "sleep"

C15_AlbumDelayPrecedesQueue ==
    Mode(args) = "albums"
    => \A i \in 1..Len(calls) : calls[i][1] = "queue" => SleptBefore(i)

\* the same without --previous
C15_HoldsWithoutPrevious ==
    (Mode(args) = "albums" /\ ~TruthyCount(args.previous))
    => \A i \in 1..Len(calls) : calls[i][1] = "queue" => SleptBefore(i)

(* C19: loading a persisted table never fails a queue request: whether    *)
(* the groups or the shortcuts file is missing, empty or malformed, the    *)
(* invocation raises no load error and hands resolution what an empty      *)
(* table gives.                                                            *)
LoadErrors == {"JSONDecodeError", "FileNotFoundError"}
QueueRequestStarted == runs > 0 /\ pc # "idle" /\ args.forget = <<>>

C19_LoadingNeverFails ==
    QueueRequestStarted
    => /\ outcome \notin LoadErrors
       /\ shortFile.state # "json" => passed = Lookup(Json(EmptyMemory), args)

\* what does hold: a malformed shortcuts file is read as an empty table
C19_MalformedShortcutsTolerated ==
    (QueueRequestStarted /\ groupFile.state = "json"
        /\ shortFile.state = "malformed")
    => /\ outcome \notin LoadErrors
       /\ passed = Lookup(Json(EmptyMemory), args)

-----------------------------------------------------------------------------
(* Source browsing, read off the state: the total the service reported is  *)
(* in the first request, the page request is the second.                   *)
Browsing ==
    /\ Truthy(args.source) /\ calls # <<>>
    /\ calls[1][1] \in {"playlist_total", "library_total"}
BrowseCount == calls[1][3]
IndexGiven == args.offset # <<>>
GivenIndex == args.offset[1]
\* the requested index is unspecified or outside [0, count-1]
NeedsRandom == ~IndexGiven \/ GivenIndex \notin 0..(BrowseCount - 1)
ChoiceLines == SelectSeq(out, LAMBDA l : l[1] = "choosing_random")
PageRequested == Len(calls) >= 2 /\ calls[2][1] \in {"playlist_page", "library_page"}

(* C16: in source browsing over count items, when the requested index is   *)
(* unspecified or outside [0, count-1], nothing is raised by the choice    *)
(* (count = 0 and count = 1 included), one index in [0, count-1] is chosen *)
(* and its line is printed, so it precedes every queue-append call.        *)
C16_RandomIndexShownInRange ==
    (Browsing /\ NeedsRandom)
    => /\ outcome # "ValueError"
       /\ Len(ChoiceLines) = 1
       /\ ChoiceLines[1][2] \in 0..(BrowseCount - 1)
       /\ ChoiceLines[1][3] = BrowseCount

\* the same for a source that is not empty
C16_HoldsForNonEmptySource ==
    (Browsing /\ NeedsRandom /\ BrowseCount >= 1)
    => /\ outcome # "ValueError"
       /\ Len(ChoiceLines) = 1
       /\ ChoiceLines[1][2] \in 0..(BrowseCount - 1)
       /\ ChoiceLines[1][3] = BrowseCount
       /\ PageRequested

(* C17: for every requested index i with 0 <= i <= count-1 (i = 0 and      *)
(* i = count-1 included) no random index is substituted: no choice line is *)
(* printed and the page request is the one i determines (offset i in the   *)
(* library, offset (count - i) - ran + 1 in the backlog).                  *)
OffsetFor(i) ==
    IF args.source = "LIBRARY" THEN i
    ELSE (BrowseCount - i) - Ran(args.offset) + 1

C17_InRangeIndexIsKept ==
    (Browsing /\ IndexGiven /\ ~NeedsRandom)
    => /\ ChoiceLines = <<>>
       /\ PageRequested
       /\ calls[2][3] = OffsetFor(GivenIndex)

\* the same for 1 <= i <= count-1
C17_HoldsAboveZero ==
    (Browsing /\ IndexGiven /\ ~NeedsRandom /\ GivenIndex >= 1)
    => /\ ChoiceLines = <<>>
       /\ PageRequested
       /\ calls[2][3] = OffsetFor(GivenIndex)

(* C18: when a range is browsed and the user leaves the selection menu     *)
(* without a choice, the invocation ends at once with exit code 0: no      *)
(* queue-append call, nothing resolved, and the shortcut and group files   *)
(* are as they were.                                                       *)
Cancelled == typed # <<>> /\ typed[Len(typed)] = <<"menu", NoSelection>>

-----------------------------------------------------------------------------
(* The group builder, read off the state: the prompts' answers are in      *)
(* typed, a "found_track" line is printed for every track the user is      *)
(* asked about, and the k-th such line goes with the k-th answer.          *)
MakingGroup == args.make_group /\ typed # <<>>
GroupName == typed[1][2]
SaveSpellings == {"save", " Save "}
YesAnswers == {"y", " Y "}
FoundLines == SelectSeq(out, LAMBDA l : l[1] = "found_track")
AnswersTyped == SelectSeq(typed, LAMBDA e : e[1] = "confirm")
RECURSIVE ConfirmedAmong(_, _)
ConfirmedAmong(found, answers) ==
    IF found = <<>> \/ answers = <<>> THEN <<>>
    ELSE (IF Head(answers)[2] \in YesAnswers THEN <<Head(found)[2]>> ELSE <<>>)
         \o ConfirmedAmong(Tail(found), Tail(answers))
ConfirmedNames == ConfirmedAmong(FoundLines, AnswersTyped)
Names(trks) == [i \in 1..Len(trks) |-> trks[i].name]
SaveTyped ==
    ItemsTyped # <<>> /\ ItemsTyped[Len(ItemsTyped)][2] \in SaveSpellings

(* C20: group creation ends on the first item input that is SAVE in any    *)
(* letter case after trimming; the tracks collected are exactly those the  *)
(* user confirmed with y, in confirmation order; on SAVE with none         *)
(* confirmed "no tracks specified" is printed and the groups file is not   *)
(* written, otherwise the file gains exactly name -> the confirmed tracks  *)
(* and every other group is as before.                                     *)
C20_GroupCreation ==
    [][MakingGroup'
       => /\ Names(tracks') = ConfirmedNames'
          /\ \A i \in 1..(Len(ItemsTyped') - 1) : ItemsTyped'[i][2] \notin SaveSpellings
          /\ SaveTyped' <=> (pc' = "exit" /\ outcome' = "ok")
          /\ ~SaveTyped' => groupFile' = groupFile
          /\ (SaveTyped' /\ ~SaveTyped)
               => IF ConfirmedNames' = <<>>
                  THEN /\ groupFile' = groupFile
                       /\ out'[Len(out')] = <<"no_tracks_specified">>
                  ELSE /\ groupFile'.state = "json"
                       /\ DOMAIN groupFile'.data = DOMAIN groupFile.data \cup {GroupName'}
                       /\ groupFile'.data[GroupName'] = tracks'
                       /\ \A g \in DOMAIN groupFile.data \ {GroupName'} :
                            groupFile'.data[g] = groupFile.data[g]
                       /\ out' = out]_vars

C20_Witness ==
    /\ MakingGroup /\ pc = "exit" /\ outcome = "ok"
    /\ GroupName = "mix"
    /\ ItemsTyped[Len(ItemsTyped)][2] = " Save "
    /\ \E i \in 1..Len(AnswersTyped) : AnswersTyped[i][2] = "n"
    /\ "mix" \in DOMAIN groupFile.data
    /\ groupFile.data["mix"] = <<TrackC>>
    /\ "road-trip" \in DOMAIN groupFile.data

(* C21: in the group builder no item input but SAVE ends the loop: every   *)
(* refused specifier (nothing given, unknown option, unbalanced quoting,   *)
(* the help option) is reported, leaves the confirmed tracks as they were  *)
(* and is followed by a new prompt.                                        *)
RefusedInputs == {"", "--bogus", "'A", "-h"}
LastItem == ItemsTyped[Len(ItemsTyped)][2]

C21_OnlySaveEndsTheLoop ==
    [][(MakingGroup' /\ Len(ItemsTyped') > Len(ItemsTyped)
           /\ LastItem' \in RefusedInputs)
       => /\ pc' = "group_item"
          /\ tracks' = tracks
          /\ Len(out') = Len(out) + 1
          /\ out'[Len(out')] = <<"invalid_specifier">>]_vars

\* what does hold: the specifiers the parser itself refuses are reported
C21_HoldsForParserRefusals ==
    [][(MakingGroup' /\ Len(ItemsTyped') > Len(ItemsTyped)
           /\ LastItem' \in {"", "--bogus"})
       => /\ pc' = "group_item"
          /\ tracks' = tracks
          /\ Len(out') = Len(out) + 1
          /\ out'[Len(out')] = <<"invalid_specifier">>]_vars

-----------------------------------------------------------------------------
(* The shortcut table as a mapping: what a partition holds, an unreadable  *)
(* or missing file or partition holding nothing.                           *)
Partition(file, m) == Get(LoadMemory(file), m, EmptyDict)

\* the key the claim names: (lowercased title, lowercased artist)
ExpectedKey(words) ==
    CASE words = <<"Blank Space", "TAYLOR SWIFT">> -> "blank space<--|-->taylor swift"
      [] words = <<"Blank Space">> -> "blank space<--|-->"
      [] words = <<"BLANK SPACE">> -> "blank space<--|-->"
      [] words = <<"blank space", "Taylor Swift">> -> "blank space<--|-->taylor swift"

RememberStep == pc = "post" /\ pc' = "exit" /\ args.remember # <<>>

(* C22: remember with no resolved track is refused: a message is printed,  *)
(* nothing is raised and the shortcut table is as it was; with a resolved  *)
(* track it sets exactly the key (lowercased title, lowercased artist) of  *)
(* the current mode's partition to the record of the first track.          *)
C22_RememberRefusesOrUpserts ==
    [][RememberStep
       => IF tracks = <<>>
          THEN /\ outcome' = "ok"
               /\ shortFile' = shortFile
               /\ out' # <<>>
          ELSE /\ outcome' = "ok"
               /\ DOMAIN Partition(shortFile', Mode(args))
                    = DOMAIN Partition(shortFile, Mode(args)) \cup {ExpectedKey(args.remember)}
               /\ Partition(shortFile', Mode(args))[ExpectedKey(args.remember)]
                    = ShortcutRecord(tracks[1], Mode(args))]_vars

\* the same when both partitions are in the table and queuing is not
\* suppressed
C22_HoldsForWholeTable ==
    [][(RememberStep /\ ~Ignore(args) /\ Modes \subseteq DOMAIN LoadMemory(shortFile))
       => IF tracks = <<>>
          THEN /\ outcome' = "ok"
               /\ shortFile' = shortFile
               /\ out'[Len(out')] = <<"could_not_find">>
          ELSE /\ outcome' = "ok"
               /\ DOMAIN Partition(shortFile', Mode(args))
                    = DOMAIN Partition(shortFile, Mode(args)) \cup {ExpectedKey(args.remember)}
               /\ Partition(shortFile', Mode(args))[ExpectedKey(args.remember)]
                    = ShortcutRecord(tracks[1], Mode(args))]_vars

(* C23: the two shortcut partitions are independent: a remember or forget  *)
(* run in one mode leaves every entry of the other mode's partition and    *)
(* every other key of its own partition as they were, and a lookup whose   *)
(* key is not in its own mode's partition gets no record, whatever the     *)
(* other partition holds.                                                  *)
OperationKey(a) ==
    IF a.forget # <<>> THEN {ExpectedKey(a.forget)}
    ELSE IF a.remember # <<>> THEN {ExpectedKey(a.remember)}
    ELSE {}
Touched(a) == {<<Mode(a), k>> : k \in OperationKey(a)}
Entries(file) ==
    {e \in Modes \X (DOMAIN Partition(file, "tracks")
                        \cup DOMAIN Partition(file, "albums")) :
        e[2] \in DOMAIN Partition(file, e[1])}
LookupKey(a) ==
    CASE ~Truthy(a.title) -> ""
      [] a.artist = "Taylor Swift" -> "blank space<--|-->taylor swift"
      [] OTHER -> "blank space<--|-->"
LookedUp == pc \in {"resolve", "queue", "post"}

C23_PartitionsAreIndependent ==
    [][/\ Entries(shortFile') \ Touched(args') = Entries(shortFile) \ Touched(args')
       /\ \A e \in Entries(shortFile) \ Touched(args') :
            Partition(shortFile', e[1])[e[2]] = Partition(shortFile, e[1])[e[2]]
       /\ (LookedUp' /\ LookupKey(args') \notin DOMAIN Partition(shortFile', Mode(args')))
            => passed' = [artist |-> args'.artist, title |-> args'.title,
                          uri |-> args'.uri]]_vars

C23_Witness ==
    /\ pc = "exit" /\ outcome = "ok" /\ Mode(args) = "albums"
    /\ args.remember = <<"Blank Space", "TAYLOR SWIFT">>
    /\ passed.uri = None
    /\ shortFile.state = "json" /\ Modes \subseteq DOMAIN shortFile.data
    /\ "blank space<--|-->taylor swift" \in DOMAIN shortFile.data["tracks"]
    /\ "blank space<--|-->taylor swift" \in DOMAIN shortFile.data["albums"]
    /\ shortFile.data["tracks"]["blank space<--|-->taylor swift"].relevant_uri = TrackC.uri
    /\ shortFile.data["albums"]["blank space<--|-->taylor swift"].relevant_uri = AlbumUri

(* C24: resolving an album uri yields every track of that album, in album  *)
(* order, whatever the album's track count (albums longer than one service *)
(* page included); resolving a track uri yields exactly one track, the one *)
(* of that uri.                                                            *)
UriResolved == branch = "title_uri" /\ pc \in {"post", "exit"} /\ Truthy(passed.uri)

C24_AlbumUriYieldsWholeAlbum ==
    UriResolved
    => IF IsAlbumUri(passed.uri)
       THEN tracks = AlbumContent(passed.uri)
       ELSE Len(tracks) = 1 /\ tracks[1].uri = passed.uri

\* the same for albums that fit in one page of the service
C24_HoldsWithinOnePage ==
    (UriResolved /\ (IsAlbumUri(passed.uri) => Len(AlbumContent(passed.uri)) <= PageLimit))
    => IF IsAlbumUri(passed.uri)
       THEN tracks = AlbumContent(passed.uri)
       ELSE Len(tracks) = 1 /\ tracks[1].uri = passed.uri

-----------------------------------------------------------------------------
(* C25: browsing the backlog over count >= 1 items, for every requested    *)
(* index and every range size ran >= 1, the offset of the page request     *)
(* lies in [0, count-1], never below 0 and never past the end, and the     *)
(* item read from the returned page is within that page.                   *)
BacklogPaged == Browsing /\ args.source = "BACKLOG" /\ PageRequested /\ BrowseCount >= 1
PageFailures == {"TypeError", "IndexError"}

C25_BacklogOffsetInBounds ==
    BacklogPaged
    => /\ calls[2][3] \in 0..(BrowseCount - 1)
       /\ outcome \notin PageFailures

\* the same when one album is asked for
C25_HoldsForSingleAlbum ==
    (BacklogPaged /\ Ran(args.offset) = 1)
    => /\ calls[2][3] \in 0..(BrowseCount - 1)
       /\ outcome \notin PageFailures

(* C26: when a range is browsed and the user picks display position p of   *)
(* the menu (built from the returned page, reversed), the album that       *)
(* becomes the one to queue is the album displayed at p, for every page    *)
(* length up to ran (pages shorter than ran, and pages whose albums format *)
(* to the same label, included).                                           *)
PageShown == Page(BrowseCount, calls[2][3], calls[2][4]).items
PickMade ==
    /\ Browsing /\ PageRequested
    /\ typed # <<>> /\ typed[1][1] = "menu" /\ typed[1][2] # NoSelection
    /\ Truthy(args.uri)
PickedPosition == typed[1][2]
DisplayedAt(p) == MenuKeys(PageShown)[p + 1]
PickIsDisplayed ==
    \E k \in 1..Len(PageShown) :
        /\ SourceUri(args.source, PageShown[k]) = args.uri
        /\ SourceLabel(PageShown[k]) = DisplayedAt(PickedPosition)

C26_PickedPositionIsQueued == PickMade => PickIsDisplayed

\* the same for pages whose albums all format to different labels
C26_HoldsForDistinctLabels ==
    (PickMade /\ Len(MenuKeys(PageShown)) = Len(PageShown)) => PickIsDisplayed

-----------------------------------------------------------------------------
(* C27: queuing is suppressed whenever another action is requested.  With  *)
(* any of --ignore, --open, --save, --like, --share, or with a transport   *)
(* or housekeeping command (pause, playpause, queue listing, skip,         *)
(* playlist transfer, forget with arguments, which, make_group,            *)
(* delete_group, list_rules), the invocation sends no queue-append call at *)
(* all; with a post-action flag the resolved list still reaches the        *)
(* post-action as it was resolved.                                         *)
CommandRequested(a) ==
    \/ a.pause \/ a.playpause \/ a.queue \/ a.next # NoCount \/ Truthy(a.playlist)
    \/ a.forget # <<>> \/ a.which \/ a.make_group \/ Truthy(a.delete_group)
    \/ a.list_rules
OtherActionRequested == pc # "idle" /\ (Ignore(args) \/ CommandRequested(args))

\* the branches whose result the request alone determines
ListIsDetermined ==
    branch = "group" \/ (branch = "title_uri" /\ Truthy(passed.uri))
ListResolved ==
    IF branch = "group" THEN Get(LoadGroups(groupFile), args.group, <<>>)
    ELSE GetTrack(passed.uri)

ReachesPostAction ==
    /\ (pc \in {"post", "exit"} /\ ListIsDetermined) => tracks = ListResolved
    /\ (pc = "exit" /\ args.like /\ outcome = "ok")
       => \E i \in 1..Len(calls) : calls[i] = <<"like", None, Len(TrackUris(tracks))>>

C27_OtherActionsSuppressQueuing ==
    OtherActionRequested
    => /\ QueueCalls = <<>>
       /\ Ignore(args) => ReachesPostAction

\* the same for every request but a skip of no tracks
C27_HoldsUnlessSkipOfNone ==
    (OtherActionRequested /\ args.next # 0)
    => /\ QueueCalls = <<>>
       /\ Ignore(args) => ReachesPostAction

\* the group builder sends no queue-append call either
C27_HoldsInGroupBuilder == args.make_group => QueueCalls = <<>>

=============================================================================
